---- MODULE Spec2Model ----
(***************************************************************************)
(* Token lifecycle of the Atlas auth service (src/app/jwt_auth.py):        *)
(* issuing access and refresh tokens, validating them against the Redis    *)
(* blacklist, revoking one token or all refresh tokens of a subject, and   *)
(* redeeming a refresh token for a new pair.                               *)
(*                                                                         *)
(* Requests run concurrently on one event loop.  A coroutine runs without  *)
(* interruption up to its next awaited Redis call, so every action below   *)
(* is the local code that precedes a Redis call together with that call;   *)
(* the local code after the last call of a handler belongs to the action   *)
(* of that last call.  Every awaited Redis call either is answered or      *)
(* raises (connection error, timeout): the parameter ok of its action.     *)
(*                                                                         *)
(* Time is counted in whole seconds: the clock value n stands for the real *)
(* instants of second n.  jose compares a token's exp with the clock       *)
(* truncated to seconds, and Redis TTLs are whole seconds.                 *)
(***************************************************************************)
EXTENDS Integers, FiniteSets, Sequences, TLC

\* ------------------------------------------------------------------ bounds

\* The clock runs from 0 to MaxTime seconds.
MaxTime == 3
\* A SCAN iteration returns its keys in at most MaxPages pages.
MaxPages == 2
\* Lifetimes in model seconds: ACCESS_TOKEN_EXPIRE_MINUTES * 60 and
\* REFRESH_TOKEN_EXPIRE_DAYS * 86400, scaled down to a few seconds.
AccessTtl == 1
RefreshTtl == 2
\* The longest expires_delta a caller passes to create_access_token.
MaxDelta == 2

\* ------------------------------------------------------------- the universe

\* The requests; each runs one handler, concurrently with the other.
Procs == {1, 2}
\* Identity ids; the "sub" claim is str(id).
Subjects == {1, 2}
\* Rows of the admins and users tables (AdminsBase.id, UsersBase.id).
AdminIds == {1}
UserIds == {1, 2}
\* Refresh tokens that are registered in Redis when the process starts: the
\* Redis server outlives the application process, its contents are an input.
InitJtis == {1, 2}
\* Every request mints at most one access+refresh pair.
MaxJti == Cardinality(InitJtis) + 2 * Cardinality(Procs)
Jtis == 1..MaxJti

\* A string that jwt.decode rejects (malformed or wrongly signed).
Garbage == [sub |-> 0, type |-> "malformed", jti |-> 0, exp |-> 0]
\* No token: the cookie and the header are missing.
NoToken == [sub |-> 0, type |-> "absent", jti |-> 0, exp |-> 0]
\* expires_delta = None, and the timedeltas a caller can pass, in seconds.
NoDelta == -1
Deltas == {NoDelta} \cup 0..MaxDelta
\* The classes of request paths that auth_middleware tells apart:
\* /api/protected..., /api/v1/AuthService/admin..., /projects/owner..., others.
Routes == {"protected", "admin", "owner", "other"}
\* What a request carries: the four cookies that auth_middleware reads and
\* the token of an "Authorization: Bearer" header.  A slot that is missing or
\* empty holds NoToken.  NoJar carries nothing.
NoJar == [adminsAccess |-> NoToken, usersAccess |-> NoToken, bearer |-> NoToken,
          adminsRefresh |-> NoToken, usersRefresh |-> NoToken]
\* Absent Redis keys.
NoEntry == [sub |-> 0, expireAt |-> 0]
NoKey == 0

VARIABLES
    now,        \* the clock, in seconds
    issued,     \* the tokens minted so far, issued[j] has jti j
    refresh,    \* Redis refresh_token:<jti> -> [sub, expireAt], NoEntry if absent
    blacklist,  \* Redis blacklist:<jti> -> expireAt, NoKey if absent
    procs,      \* the requests: handler, position, locals, outcome
    redeemed,   \* history: jtis of refresh tokens whose redemption minted a pair
    revoked     \* history: jtis for which revoke_token returned True

vars == <<now, issued, refresh, blacklist, procs, redeemed, revoked>>

\* ------------------------------------------------------------- Token Codec

\* Mutant: jwt.decode does not verify exp.
JwtDecodesUnverifiedExp(tok, t) == tok.type \notin {"malformed", "absent"}

\* jwt.decode(token, SECRET_KEY, algorithms=[ALGORITHM]): the signature check,
\* then jose's _validate_exp, which raises when exp < now (whole seconds).
JwtExpired(tok, t) == tok.exp < t

JwtDecodes(tok, t) == tok.type # "malformed" /\ ~JwtExpired(tok, t)

\* ---------------------------------------------------------- Revocation Store

\* Mutant: every id counts as active.
IsActiveAlways(r, j) == TRUE

\* EXISTS refresh_token:<jti>
IsActive(r, j) == j \in DOMAIN r /\ r[j] # NoEntry
IsBlacklisted(b, j) == j \in DOMAIN b /\ b[j] # NoKey

\* Mutant: SETEX writes every key of the blacklist.
SetexBlacklistAll(b, j, ttl, t) == [k \in DOMAIN b |-> t + ttl]

\* SETEX blacklist:<jti> ttl "1"
SetexBlacklist(b, j, ttl, t) == [b EXCEPT ![j] = t + ttl]

\* Mutant: the DEL names a key that does not exist, the entry stays.
DelRefreshWrongKey(r, j) == r

\* DEL refresh_token:<jti> (deleting an absent key is no error)
DelRefresh(r, j) == [r EXCEPT ![j] = NoEntry]

\* GET refresh_token:<jti>: the subject, 0 for None
GetRefresh(r, j) == r[j].sub

\* Redis drops a key once its TTL has run out.
ExpireRefresh(r, t) == [j \in DOMAIN r |-> IF r[j].expireAt <= t THEN NoEntry ELSE r[j]]
ExpireBlacklist(b, t) == [j \in DOMAIN b |-> IF b[j] <= t THEN NoKey ELSE b[j]]

\* ------------------------------------------------------------ Token Issuer

\* Mutant: the id generator repeats the id it gave last.
RepeatedJti == Len(issued)

\* jti = str(uuid.uuid4()): an id that no token carries yet.
NextJti == Len(issued) + 1

\* create_access_token, lines 40-43: "if expires_delta" is false for None and
\* for timedelta(0), and then the default lifetime is taken.
AccessLifetime(delta) == IF delta # NoDelta /\ delta # 0 THEN delta ELSE AccessTtl

\* create_access_token: claims sub, jti = uuid4, exp = now + lifetime, type access.
CreateAccessToken(sub, j, t, delta) ==
    [sub |-> sub, type |-> "access", jti |-> j, exp |-> t + AccessLifetime(delta)]

\* Mutant: the type claim copied from create_access_token.
CreateRefreshTokenAsAccess(sub, j, t) ==
    [sub |-> sub, type |-> "access", jti |-> j, exp |-> t + RefreshTtl]

\* create_refresh_token: claims sub, jti = uuid4, exp = now + ttl, type refresh.
CreateRefreshToken(sub, j, t) ==
    [sub |-> sub, type |-> "refresh", jti |-> j, exp |-> t + RefreshTtl]

\* Mutant: the SETEX is carried out, with the jti as the value.
RegisterRefreshTokenJtiValue(r, tok, t, wr) ==
    IF wr THEN [r EXCEPT ![tok.jti] = [sub |-> tok.jti, expireAt |-> t + RefreshTtl]]
    ELSE r

\* Mutant: the SETEX of create_refresh_token is carried out.
RegisterRefreshTokenAwaited(r, tok, t, wr) ==
    IF wr THEN [r EXCEPT ![tok.jti] = [sub |-> tok.sub, expireAt |-> t + RefreshTtl]]
    ELSE r

\* create_refresh_token, line 69: redis_client is the redis.asyncio client and
\* create_refresh_token is a plain def, so redis_client.setex(...) only builds
\* a coroutine that is never awaited: no command is sent, the store does not
\* change, and whether Redis would have answered (wr) makes no difference.
RegisterRefreshToken(r, tok, t, wr) == r

\* The pair a login or a redemption mints for sub at time t.
MintPair(sub, t) ==
    <<CreateAccessToken(sub, NextJti, t, NoDelta), CreateRefreshToken(sub, NextJti + 1, t)>>

\* --------------------------------------------------------- Token Validator

\* Mutant: the blacklist is looked up before the token is decoded.
DecodeTokenBlacklistFirst(tok, t, b) ==
    IF IsBlacklisted(b, tok.jti) THEN "revoked"
    ELSE IF ~JwtDecodes(tok, t) THEN "invalid"
    ELSE "ok"

\* decode_token once Redis has answered the EXISTS blacklist:<jti>.
\* "invalid" is the JWTError turned into 401 Could not validate credentials,
\* "revoked" is 401 Token has been revoked.
DecodeToken(tok, t, b) ==
    IF ~JwtDecodes(tok, t) THEN "invalid"
    ELSE IF IsBlacklisted(b, tok.jti) THEN "revoked"
    ELSE "ok"

\* ------------------------------------------------------------------ requests

\* why: what made auth_middleware leave the access path; route: the class of
\* the request path once the handler has read it; ident: request.state.user;
\* raised: auth_middleware ended with an exception; served: call_next ran;
\* failed: a Redis call of auth_middleware or refresh_tokens was not answered;
\* jar: the cookies and the header of the request where they are fixed before
\* the request arrives (InitCookies), else NoJar; again: a SCAN of
\* revoke_all_user_tokens has returned a key that an earlier SCAN had
\* returned; utype: the "type" of what get_current_user returned.
Idle ==
    [op |-> "none", pc |-> "idle", tok |-> Garbage, sub |-> 0,
     cursor |-> 0, todo |-> {}, key |-> 0, res |-> "none", minted |-> 0,
     afterRedeem |-> FALSE, afterRevoke |-> FALSE, snap |-> 0,
     why |-> "none", route |-> "unread", ident |-> 0,
     raised |-> FALSE, served |-> FALSE, failed |-> FALSE, jar |-> NoJar,
     again |-> FALSE, utype |-> "none"]

\* Requests are numbered in their order of arrival.
Arrives(p) == procs[p].pc = "idle" /\ \A q \in Procs : q < p => procs[q].pc # "idle"

\* The tokens a client can present: every token minted so far, or garbage.
Presentable == {issued[j] : j \in 1..Len(issued)} \cup {Garbage}

\* The request is over: its outcome stays, its locals are gone.
Done(me, result) ==
    [me EXCEPT !.pc = "done", !.res = result, !.cursor = 0, !.todo = {}, !.key = 0]

Finish(p, result) == [procs EXCEPT ![p] = Done(procs[p], result)]

Handlers == {"auth_middleware", "refresh_tokens"}

\* auth_middleware, lines 160, 226 and 308: the routes that demand a login.
RequiresAuth(route) == route = "protected"
\* Lines 191-192 and line 277: the routes whose identities are admins.
IsAdminRouteAccess(route) == route \in {"admin", "owner"}
IsAdminRouteRefresh(route) == route = "admin"

\* The path of a request does not change while it is handled.
RouteOf(p, route) ==
    IF procs[p].op = "auth_middleware" THEN procs[p].route \in {"unread", route}
    ELSE route = "other"

\* auth_middleware_wrapper, main.py lines 116-122: every exception of
\* auth_middleware is logged, and call_next(request) runs in any case.
WrapperServes(raised) == TRUE

\* How a handler ends.  auth_middleware returns None on a failure unless the
\* route demands a login, then it raises 401; a Redis error is never caught
\* inside it.  Its wrapper goes on to call_next.
End(me, result, route) ==
    IF me.op # "auth_middleware" THEN Done(me, result)
    ELSE LET raised == \/ result = "error"
                       \/ result \notin {"valid_access", "ok"} /\ RequiresAuth(route)
         IN [Done(me, result) EXCEPT !.route = "unread", !.raised = raised,
                                     !.served = WrapperServes(raised)]

\* At start-up Redis holds the active entries of the refresh tokens 1 and 2,
\* of the subjects 1 and 2, issued with the default lifetime.  A token issued
\* at the real instant i has exp = floor(i + lifetime) and is accepted during
\* the whole second exp, while its entry expires at i + lifetime, within that
\* second: the entry is gone from second exp on, or from second exp + 1 on.
Init ==
    /\ now = 0
    /\ issued = [j \in InitJtis |->
                    [sub |-> j, type |-> "refresh", jti |-> j, exp |-> RefreshTtl]]
    /\ \E lag \in {0, 1} :
         refresh = [j \in Jtis |-> IF j \in InitJtis
                                     THEN [sub |-> j, expireAt |-> RefreshTtl + lag]
                                     ELSE NoEntry]
    /\ blacklist = [j \in Jtis |-> NoKey]
    /\ procs = [p \in Procs |-> Idle]
    /\ redeemed = {}
    /\ revoked = {}

\* ------------------------------------------------------------- environment

\* A second passes; Redis expires the keys whose TTL ran out.
Tick ==
    /\ now < MaxTime
    /\ now' = now + 1
    /\ refresh' = ExpireRefresh(refresh, now + 1)
    /\ blacklist' = ExpireBlacklist(blacklist, now + 1)
    /\ UNCHANGED <<issued, procs, redeemed, revoked>>

\* ------------------------------------------------------------------- login

\* admin_auth, lines 91-92: create_access_token and create_refresh_token for
\* the authenticated admin, with no await between them.
Login(p, s, wr) ==
    /\ Arrives(p)
    /\ LET pair == MintPair(s, now) IN
        /\ issued' = issued \o pair
        /\ refresh' = RegisterRefreshToken(refresh, pair[2], now, wr)
        /\ procs' = [procs EXCEPT ![p] =
                        [Idle EXCEPT !.op = "admin_auth", !.pc = "done", !.sub = s,
                                     !.res = "ok", !.minted = pair[2].jti]]
    /\ UNCHANGED <<now, blacklist, redeemed, revoked>>

\* create_access_token(data, expires_delta) called on its own: no store call.
IssueAccessToken(p, s, delta) ==
    /\ Arrives(p)
    /\ issued' = Append(issued, CreateAccessToken(s, NextJti, now, delta))
    /\ procs' = [procs EXCEPT ![p] =
                    [Idle EXCEPT !.op = "create_access_token", !.pc = "done", !.sub = s,
                                 !.res = "ok"]]
    /\ UNCHANGED <<now, refresh, blacklist, redeemed, revoked>>

\* -------------------------------------------------------- Revocation Manager

Max(a, b) == IF a >= b THEN a ELSE b

\* Mutant: the TTL is what is left of the token's lifetime, without a floor.
RevokeTtlNoFloor(tok, t) == tok.exp - t

\* Mutant: the blacklist entry always gets the full refresh-token lifetime.
RevokeTtlFull(tok, t) == RefreshTtl

\* revoke_token, line 110: ttl = max(1, int(exp - now)).
RevokeTtl(tok, t) == Max(1, tok.exp - t)

\* revoke_token, line 116: only a refresh token has an active entry to delete.
RevokeDeletesActive(tok) == tok.type = "refresh"

\* revoke_token, lines 100-113, as the request's handler: decode, then
\* SETEX blacklist:<jti>.  A token that does not decode gives False.
RevokeSetex(p, tok, ok) ==
    /\ Arrives(p)
    /\ LET me == [Idle EXCEPT !.op = "revoke_token", !.tok = tok,
                              !.afterRevoke = tok.jti \in revoked] IN
        IF ~JwtDecodes(tok, now)
        THEN /\ procs' = [procs EXCEPT ![p] = [me EXCEPT !.pc = "done", !.res = "false"]]
             /\ UNCHANGED <<blacklist, revoked>>
        ELSE IF ~ok
        THEN /\ procs' = [procs EXCEPT ![p] = [me EXCEPT !.pc = "done", !.res = "error"]]
             /\ UNCHANGED <<blacklist, revoked>>
        ELSE /\ blacklist' = SetexBlacklist(blacklist, tok.jti, RevokeTtl(tok, now), now)
             /\ IF RevokeDeletesActive(tok)
                THEN /\ procs' = [procs EXCEPT ![p] = [me EXCEPT !.pc = "delete"]]
                     /\ UNCHANGED revoked
                ELSE /\ procs' = [procs EXCEPT ![p] = [me EXCEPT !.pc = "done", !.res = "true"]]
                     /\ revoked' = revoked \cup {tok.jti}
    /\ UNCHANGED <<now, issued, refresh, redeemed>>

\* revoke_token, lines 116-119: DEL refresh_token:<jti>, return True.
RevokeDelete(p, ok) ==
    /\ procs[p].op = "revoke_token"
    /\ procs[p].pc = "delete"
    /\ IF ~ok
       THEN /\ procs' = Finish(p, "error")
            /\ UNCHANGED <<refresh, revoked>>
       ELSE /\ refresh' = DelRefresh(refresh, procs[p].tok.jti)
            /\ procs' = Finish(p, "true")
            /\ revoked' = revoked \cup {procs[p].tok.jti}
    /\ UNCHANGED <<now, issued, blacklist, redeemed>>

\* revoke_all_user_tokens, line 129: SCAN cursor MATCH refresh_token:*.  The
\* keyspace is the slots 1..MaxJti; a call with cursor c returns the keys of
\* the slots c+1..k and the cursor k, or 0 when k is the last slot.
PageEnds(c) == (IF c + 1 < MaxPages THEN {c + 1} ELSE {}) \cup {MaxJti}
ScanPage(r, c, k) == {j \in (c + 1)..k : IsActive(r, j)}
ScanCursor(k) == IF k = MaxJti THEN 0 ELSE k

\* Mutant: the owner of the key is not compared.
RevokeAllMatchesAny(user, userId) == TRUE

\* revoke_all_user_tokens, line 132: user == user_id.
RevokeAllMatches(user, userId) == user = userId

\* Mutant: the loop does not look at the cursor.
RaContinueNoBreak(me, left) ==
    IF left # {} THEN [me EXCEPT !.pc = "get", !.todo = left, !.key = 0]
    ELSE [me EXCEPT !.pc = "scan", !.todo = {}, !.key = 0]

\* Where revoke_all_user_tokens goes on once a key of the page is dealt
\* with: the next key, the next SCAN, or return True (lines 130, 139-142).
RaContinue(me, left) ==
    IF left # {} THEN [me EXCEPT !.pc = "get", !.todo = left, !.key = 0]
    ELSE IF me.cursor = 0 THEN Done(me, "true")
    ELSE [me EXCEPT !.pc = "scan", !.todo = {}, !.key = 0]

\* SCAN may return a key again that an earlier call of the iteration has
\* returned and that is still there: dup.
ScanAgain(r, c) == SUBSET {j \in 1..c : IsActive(r, j)}

\* The reply to a SCAN: the new cursor and the keys, in a set since the
\* order of the keys makes no difference to the loop.
RaScanned(me, k, dup, ok) ==
    IF ~ok THEN Done(me, "error")
    ELSE RaContinue([me EXCEPT !.cursor = ScanCursor(k),
                               !.again = me.again \/ dup # {}],
                    ScanPage(refresh, me.cursor, k) \cup dup)

\* revoke_all_user_tokens(user_id), lines 127-129: the first SCAN.
RaStart(p, s, k, ok) ==
    /\ Arrives(p)
    /\ k \in PageEnds(0)
    /\ procs' = [procs EXCEPT ![p] =
                    RaScanned([Idle EXCEPT !.op = "revoke_all_user_tokens", !.sub = s,
                                           !.snap = Len(issued)], k, {}, ok)]
    /\ UNCHANGED <<now, issued, refresh, blacklist, redeemed, revoked>>

\* Line 129 again, while the cursor is not 0.
RaScan(p, k, dup, ok) ==
    /\ procs[p].op = "revoke_all_user_tokens"
    /\ procs[p].pc = "scan"
    /\ k \in PageEnds(procs[p].cursor)
    /\ dup \in ScanAgain(refresh, procs[p].cursor)
    /\ procs' = [procs EXCEPT ![p] = RaScanned(procs[p], k, dup, ok)]
    /\ UNCHANGED <<now, issued, refresh, blacklist, redeemed, revoked>>

\* Lines 130-132: GET key for a key of the page (the page's order is the
\* store's), and the comparison with user_id.
RaGet(p, key, ok) ==
    /\ procs[p].op = "revoke_all_user_tokens"
    /\ procs[p].pc = "get"
    /\ key \in procs[p].todo
    /\ procs' = [procs EXCEPT ![p] =
                    IF ~ok THEN Done(procs[p], "error")
                    ELSE IF RevokeAllMatches(GetRefresh(refresh, key), procs[p].sub)
                    THEN [procs[p] EXCEPT !.pc = "setex", !.key = key]
                    ELSE RaContinue(procs[p], procs[p].todo \ {key})]
    /\ UNCHANGED <<now, issued, refresh, blacklist, redeemed, revoked>>

\* Line 135: SETEX blacklist:<jti> with the full refresh-token lifetime.
RaSetex(p, ok) ==
    /\ procs[p].op = "revoke_all_user_tokens"
    /\ procs[p].pc = "setex"
    /\ IF ~ok
       THEN /\ procs' = Finish(p, "error")
            /\ UNCHANGED blacklist
       ELSE /\ blacklist' = SetexBlacklist(blacklist, procs[p].key, RefreshTtl, now)
            /\ procs' = [procs EXCEPT ![p].pc = "delete"]
    /\ UNCHANGED <<now, issued, refresh, redeemed, revoked>>

\* Line 137: DEL key, then the loop goes on.
RaDelete(p, ok) ==
    /\ procs[p].op = "revoke_all_user_tokens"
    /\ procs[p].pc = "delete"
    /\ IF ~ok
       THEN /\ procs' = Finish(p, "error")
            /\ UNCHANGED refresh
       ELSE /\ refresh' = DelRefresh(refresh, procs[p].key)
            /\ procs' = [procs EXCEPT ![p] =
                            RaContinue(procs[p], procs[p].todo \ {procs[p].key})]
    /\ UNCHANGED <<now, issued, blacklist, redeemed, revoked>>

\* --------------------------------------------------------------- redemption

\* A Redis call of a handler raises: the error leaves the handler.
Fail(me, route) == [End(me, "error", route) EXCEPT !.failed = TRUE]

\* The identity lookup: on an admin route the subject is looked up in admins,
\* else in users (lines 194-217 and 279-302).
IdentityFound(sub, admin) == IF admin THEN sub \in AdminIds ELSE sub \in UserIds

\* Mutant: a Redis error of the blacklist lookup counts as "not blacklisted".
AwaitDecodeTokenFailOpen(tok, t, b, ok) ==
    IF JwtDecodes(tok, t) /\ ~ok THEN "ok" ELSE DecodeToken(tok, t, b)

\* await decode_token(token): jwt.decode, then EXISTS blacklist:<jti>, which
\* Redis answers or not.
AwaitDecodeToken(tok, t, b, ok) ==
    IF JwtDecodes(tok, t) /\ ~ok THEN "error" ELSE DecodeToken(tok, t, b)

\* Mutant: the type claim of the access credential is not looked at.
IsAccessTypeAny(tok) == TRUE

\* auth_middleware, line 174: token_type != "access" is refused.
IsAccessType(tok) == tok.type = "access"

\* Mutant: the Authorization header is looked at before the cookies.
AccessCredentialHeaderFirst(jar) ==
    IF jar.bearer # NoToken THEN jar.bearer
    ELSE IF jar.adminsAccess # NoToken THEN jar.adminsAccess
    ELSE jar.usersAccess

\* Mutant: without an access token the refresh cookie is taken for one.
AccessCredentialOrRefresh(jar) ==
    IF jar.adminsAccess # NoToken THEN jar.adminsAccess
    ELSE IF jar.usersAccess # NoToken THEN jar.usersAccess
    ELSE IF jar.bearer # NoToken THEN jar.bearer
    ELSE IF jar.adminsRefresh # NoToken THEN jar.adminsRefresh
    ELSE jar.usersRefresh

\* auth_middleware, lines 150-156: cookies.get("admins_access_token") or
\* cookies.get("users_access_token"), and the token of the Authorization
\* header only when that gave nothing.
AccessCredential(jar) ==
    IF jar.adminsAccess # NoToken THEN jar.adminsAccess
    ELSE IF jar.usersAccess # NoToken THEN jar.usersAccess
    ELSE jar.bearer

\* auth_middleware, line 223: cookies.get("admins_refresh_token") or
\* cookies.get("users_refresh_token").
RefreshCredential(jar) ==
    IF jar.adminsRefresh # NoToken THEN jar.adminsRefresh ELSE jar.usersRefresh

\* auth_middleware, lines 150-232: the access token acc of the cookie or the
\* Authorization header is validated (one EXISTS blacklist:<jti>), its type
\* is checked, and the identity is looked up and attached.  Every 401 of this
\* part, the failed lookup included, is caught at line 221 and leads to the
\* refresh cookie ref: without one the request ends, else decode_token(ref)
\* is the next call.
AmAccess(p, acc, ref, route, ok) ==
    /\ Arrives(p)
    /\ LET me == [procs[p] EXCEPT !.op = "auth_middleware",
                                  !.failed = acc # NoToken /\ JwtDecodes(acc, now) /\ ~ok]
           answer == AwaitDecodeToken(acc, now, blacklist, ok)
           ToRefresh(why, rt) ==
               IF ref = NoToken THEN End([me EXCEPT !.why = why], "norefresh", route)
               ELSE [me EXCEPT !.pc = "refresh", !.tok = ref, !.why = why, !.route = rt]
       IN procs' = [procs EXCEPT ![p] =
            IF acc = NoToken THEN End(me, "nocred", route)
            ELSE IF answer = "error" THEN End(me, "error", route)
            ELSE IF answer # "ok" THEN ToRefresh(answer, "unread")
            ELSE IF ~IsAccessType(acc) THEN ToRefresh("wrongtype", "unread")
            ELSE IF IdentityFound(acc.sub, IsAdminRouteAccess(route))
            THEN [End(me, "valid_access", route) EXCEPT !.ident = acc.sub]
            ELSE ToRefresh("notfound", route)]
    /\ UNCHANGED <<now, issued, refresh, blacklist, redeemed, revoked>>

\* auth_middleware on a request whose cookies and header are known: the
\* credentials are read from them.
AmRequest(p, route, ok) ==
    AmAccess(p, AccessCredential(procs[p].jar), RefreshCredential(procs[p].jar), route, ok)

\* The end of a redemption once revoke_token has returned: lines 268-304 of
\* auth_middleware, lines 353-361 of refresh_tokens.  The pair is minted and,
\* in auth_middleware, put on request.state before the identity is looked up.
RedeemMint(p, route) ==
    LET me == procs[p]
        pair == MintPair(me.tok.sub, now)
        found == IdentityFound(me.tok.sub, IsAdminRouteRefresh(route))
        result == IF me.op = "refresh_tokens" \/ found THEN "ok" ELSE "notfound"
        ident == IF me.op = "auth_middleware" /\ found THEN me.tok.sub ELSE 0
    IN  /\ issued' = issued \o pair
        /\ redeemed' = redeemed \cup {me.tok.jti}
        /\ procs' = [procs EXCEPT ![p] =
                        [End(me, result, route) EXCEPT !.minted = pair[2].jti,
                                                       !.ident = ident]]

\* decode_token(refresh_token), lines 236 and 321: jwt.decode, then
\* EXISTS blacklist:<jti>.  refresh_tokens starts here, auth_middleware comes
\* here from its access path.
RedeemDecode(p, h, tok, route, ok) ==
    /\ IF h = "refresh_tokens" THEN Arrives(p) /\ route = "other"
       ELSE /\ procs[p].op = h /\ procs[p].pc = "refresh"
            /\ tok = procs[p].tok /\ RouteOf(p, route)
    /\ LET me == [(IF h = "refresh_tokens" THEN Idle ELSE procs[p])
                     EXCEPT !.op = h, !.tok = tok,
                            !.afterRedeem = tok.jti \in redeemed,
                            !.afterRevoke = tok.jti \in revoked,
                            !.failed = JwtDecodes(tok, now) /\ ~ok]
           answer == AwaitDecodeToken(tok, now, blacklist, ok)
       IN procs' = [procs EXCEPT ![p] =
                      IF answer = "ok" THEN [me EXCEPT !.pc = "exists"]
                      ELSE End(me, answer, route)]
    /\ UNCHANGED <<now, issued, refresh, blacklist, redeemed, revoked>>

\* Lines 239-253 and 324-338: the type check, then EXISTS refresh_token:<jti>.
RedeemExists(p, route, ok) ==
    /\ procs[p].op \in Handlers
    /\ procs[p].pc = "exists"
    /\ RouteOf(p, route)
    /\ procs' = [procs EXCEPT ![p] =
                    IF procs[p].tok.type # "refresh" THEN End(procs[p], "wrongtype", route)
                    ELSE IF ~ok THEN Fail(procs[p], route)
                    ELSE IF ~IsActive(refresh, procs[p].tok.jti)
                    THEN End(procs[p], "inactive", route)
                    ELSE [procs[p] EXCEPT !.pc = "revoke"]]
    /\ UNCHANGED <<now, issued, refresh, blacklist, redeemed, revoked>>

\* Lines 265 and 350: await revoke_token(refresh_token), whose result is not
\* looked at.  revoke_token decodes the token again: when it has expired in
\* the meantime revoke_token returns False, nothing is written and the pair
\* is minted all the same.
RedeemRevoke(p, route, ok, wr) ==
    /\ procs[p].op \in Handlers
    /\ procs[p].pc = "revoke"
    /\ RouteOf(p, route)
    /\ LET tok == procs[p].tok IN
        IF ~JwtDecodes(tok, now)
        THEN /\ RedeemMint(p, route)
             /\ refresh' = RegisterRefreshToken(refresh, MintPair(tok.sub, now)[2], now, wr)
             /\ UNCHANGED blacklist
        ELSE IF ~ok
        THEN /\ procs' = [procs EXCEPT ![p] = Fail(procs[p], route)]
             /\ UNCHANGED <<issued, refresh, blacklist, redeemed>>
        ELSE /\ blacklist' = SetexBlacklist(blacklist, tok.jti, RevokeTtl(tok, now), now)
             /\ procs' = [procs EXCEPT ![p].pc = "delete"]
             /\ UNCHANGED <<issued, refresh, redeemed>>
    /\ UNCHANGED <<now, revoked>>

\* revoke_token's DEL refresh_token:<jti> inside a redemption (the token is a
\* refresh token here), then the mint.
RedeemDelete(p, route, ok, wr) ==
    /\ procs[p].op \in Handlers
    /\ procs[p].pc = "delete"
    /\ RouteOf(p, route)
    /\ LET tok == procs[p].tok IN
        IF ~ok
        THEN /\ procs' = [procs EXCEPT ![p] = Fail(procs[p], route)]
             /\ UNCHANGED <<issued, refresh, redeemed>>
        ELSE /\ RedeemMint(p, route)
             /\ refresh' = RegisterRefreshToken(
                    IF RevokeDeletesActive(tok) THEN DelRefresh(refresh, tok.jti) ELSE refresh,
                    MintPair(tok.sub, now)[2], now, wr)
    /\ UNCHANGED <<now, blacklist, revoked>>

\* ----------------------------------------------------------- specification

Next ==
    \/ Tick
    \/ \E p \in Procs, s \in Subjects, wr \in BOOLEAN : Login(p, s, wr)
    \/ \E p \in Procs, s \in Subjects, delta \in Deltas : IssueAccessToken(p, s, delta)
    \/ \E p \in Procs, tok \in Presentable, ok \in BOOLEAN : RevokeSetex(p, tok, ok)
    \/ \E p \in Procs, ok \in BOOLEAN : RevokeDelete(p, ok)
    \/ \E p \in Procs, s \in Subjects, k \in Jtis, ok \in BOOLEAN : RaStart(p, s, k, ok)
    \/ \E p \in Procs, k \in Jtis, ok \in BOOLEAN : RaScan(p, k, {}, ok)
    \/ \E p \in Procs, key \in Jtis, ok \in BOOLEAN : RaGet(p, key, ok)
    \/ \E p \in Procs, ok \in BOOLEAN : RaSetex(p, ok)
    \/ \E p \in Procs, ok \in BOOLEAN : RaDelete(p, ok)
    \/ \E p \in Procs, acc \in Presentable \cup {NoToken},
          ref \in Presentable \cup {NoToken}, route \in Routes, ok \in BOOLEAN :
          AmAccess(p, acc, ref, route, ok)
    \/ \E p \in Procs, h \in Handlers, tok \in Presentable, route \in Routes, ok \in BOOLEAN :
          RedeemDecode(p, h, tok, route, ok)
    \/ \E p \in Procs, route \in Routes, ok \in BOOLEAN : RedeemExists(p, route, ok)
    \/ \E p \in Procs, route \in Routes, ok \in BOOLEAN, wr \in BOOLEAN :
          RedeemRevoke(p, route, ok, wr)
    \/ \E p \in Procs, route \in Routes, ok \in BOOLEAN, wr \in BOOLEAN :
          RedeemDelete(p, route, ok, wr)

Spec == Init /\ [][Next]_vars

\* -------------------------------------------- requests with known cookies

\* Tokens of earlier sessions that a browser still holds: the refresh tokens
\* 1 and 2, and the access tokens 3 and 4 of the subjects 1 and 2.
HeldAccess == {[sub |-> s, type |-> "access", jti |-> Cardinality(InitJtis) + s,
                exp |-> AccessTtl] : s \in Subjects}
HeldRefresh == {[sub |-> j, type |-> "refresh", jti |-> j, exp |-> RefreshTtl] : j \in InitJtis}
Jars == [adminsAccess : HeldAccess \cup {NoToken},
         usersAccess : HeldAccess \cup {NoToken},
         bearer : HeldAccess \cup {NoToken},
         adminsRefresh : HeldRefresh \cup {NoToken},
         usersRefresh : HeldRefresh \cup {NoToken}]

\* As Init, with the held access tokens issued as well, and with the cookies
\* and the header that the browser sends with both of its requests.
InitCookies ==
    /\ now = 0
    /\ issued = [j \in 1..(Cardinality(InitJtis) + Cardinality(Subjects)) |->
                    IF j \in InitJtis
                    THEN [sub |-> j, type |-> "refresh", jti |-> j, exp |-> RefreshTtl]
                    ELSE [sub |-> j - Cardinality(InitJtis), type |-> "access",
                          jti |-> j, exp |-> AccessTtl]]
    /\ \E lag \in {0, 1} :
         refresh = [j \in Jtis |-> IF j \in InitJtis
                                     THEN [sub |-> j, expireAt |-> RefreshTtl + lag]
                                     ELSE NoEntry]
    /\ blacklist = [j \in Jtis |-> NoKey]
    /\ \E jar \in Jars : procs = [p \in Procs |-> [Idle EXCEPT !.jar = jar]]
    /\ redeemed = {}
    /\ revoked = {}

NextCookies ==
    \/ Tick
    \/ \E p \in Procs, route \in Routes, ok \in BOOLEAN : AmRequest(p, route, ok)
    \/ \E p \in Procs, route \in Routes, ok \in BOOLEAN :
          RedeemDecode(p, "auth_middleware", procs[p].tok, route, ok)
    \/ \E p \in Procs, route \in Routes, ok \in BOOLEAN : RedeemExists(p, route, ok)
    \/ \E p \in Procs, route \in Routes, ok \in BOOLEAN, wr \in BOOLEAN :
          RedeemRevoke(p, route, ok, wr)
    \/ \E p \in Procs, route \in Routes, ok \in BOOLEAN, wr \in BOOLEAN :
          RedeemDelete(p, route, ok, wr)

SpecCookies == InitCookies /\ [][NextCookies]_vars

\* ------------------------------- refresh tokens of every lifetime, revoked

\* create_refresh_token, lines 58-61 and 68: the lifetime of the token and of
\* its active entry is expires_delta if one is passed (and is not zero), else
\* REFRESH_TOKEN_EXPIRE_DAYS.  A caller may pass less or more than the default.
RefreshDeltas == {NoDelta} \cup 0..(RefreshTtl + 1)
RefreshLifetime(delta) == IF delta # NoDelta /\ delta # 0 THEN delta ELSE RefreshTtl
CreateRefreshTokenDelta(sub, j, t, delta) ==
    [CreateRefreshToken(sub, j, t) EXCEPT !.exp = t + RefreshLifetime(delta)]

\* As Init, with the refresh tokens 1 and 2 issued with any expires_delta.
InitLifetimes ==
    /\ now = 0
    /\ \E d \in [InitJtis -> RefreshDeltas], lag \in {0, 1} :
         /\ issued = [j \in InitJtis |-> CreateRefreshTokenDelta(j, j, 0, d[j])]
         /\ refresh = [j \in Jtis |->
                         IF j \in InitJtis
                         THEN [sub |-> j, expireAt |-> RefreshLifetime(d[j]) + lag]
                         ELSE NoEntry]
    /\ blacklist = [j \in Jtis |-> NoKey]
    /\ procs = [p \in Procs |-> Idle]
    /\ redeemed = {}
    /\ revoked = {}

NextLifetimes ==
    \/ Tick
    \/ \E p \in Procs, s \in Subjects, k \in Jtis, ok \in BOOLEAN : RaStart(p, s, k, ok)
    \/ \E p \in Procs, k \in Jtis, ok \in BOOLEAN : RaScan(p, k, {}, ok)
    \/ \E p \in Procs, key \in Jtis, ok \in BOOLEAN : RaGet(p, key, ok)
    \/ \E p \in Procs, ok \in BOOLEAN : RaSetex(p, ok)
    \/ \E p \in Procs, ok \in BOOLEAN : RaDelete(p, ok)

SpecLifetimes == InitLifetimes /\ [][NextLifetimes]_vars

\* ------------------------------------- the scan of revoke_all_user_tokens

\* revoke_all_user_tokens against a Redis that answers every call, with a
\* reply or with an error, and whose SCAN may return keys again.  Entries
\* vanish between a SCAN and the GET when they expire or when the other
\* request deletes them.
NextScan ==
    \/ Tick
    \/ \E p \in Procs, s \in Subjects, k \in Jtis, ok \in BOOLEAN : RaStart(p, s, k, ok)
    \/ \E p \in Procs, k \in Jtis, ok \in BOOLEAN :
          \E dup \in ScanAgain(refresh, procs[p].cursor) : RaScan(p, k, dup, ok)
    \/ \E p \in Procs, key \in Jtis, ok \in BOOLEAN : RaGet(p, key, ok)
    \/ \E p \in Procs, ok \in BOOLEAN : RaSetex(p, ok)
    \/ \E p \in Procs, ok \in BOOLEAN : RaDelete(p, ok)

\* The coroutine of a request is resumed when the reply to its call is there.
RaAnswered(p) ==
    \/ \E k \in Jtis, ok \in BOOLEAN :
          \E dup \in ScanAgain(refresh, procs[p].cursor) : RaScan(p, k, dup, ok)
    \/ \E key \in Jtis, ok \in BOOLEAN : RaGet(p, key, ok)
    \/ \E ok \in BOOLEAN : RaSetex(p, ok)
    \/ \E ok \in BOOLEAN : RaDelete(p, ok)

SpecScan == Init /\ [][NextScan]_vars /\ \A p \in Procs : WF_vars(RaAnswered(p))

\* --------------------------------------- a Redis that may never answer

\* auth_middleware against a Redis whose answers may stay away.  redis_client
\* (line 16) is made by redis.from_url without socket_timeout and no await is
\* wrapped in a timeout, so a call that is not answered is not ended by
\* anything: time goes by, and no step of a waiting request is ever forced.
NextResolve ==
    \/ Tick
    \/ \E p \in Procs, acc \in Presentable \cup {NoToken},
          ref \in Presentable \cup {NoToken}, route \in Routes, ok \in BOOLEAN :
          AmAccess(p, acc, ref, route, ok)
    \/ \E p \in Procs, route \in Routes, ok \in BOOLEAN :
          RedeemDecode(p, "auth_middleware", procs[p].tok, route, ok)
    \/ \E p \in Procs, route \in Routes, ok \in BOOLEAN : RedeemExists(p, route, ok)
    \/ \E p \in Procs, route \in Routes, ok \in BOOLEAN, wr \in BOOLEAN :
          RedeemRevoke(p, route, ok, wr)
    \/ \E p \in Procs, route \in Routes, ok \in BOOLEAN, wr \in BOOLEAN :
          RedeemDelete(p, route, ok, wr)

SpecResolve == Init /\ [][NextResolve]_vars /\ WF_vars(Tick)

\* ------------------------------------------------- the bearer dependencies

\* The dependencies of the routes that take the token from the Authorization
\* header through oauth2_scheme.
Dependencies == {"get_current_user", "get_current_admin", "get_current_project_user"}

\* get_current_user, lines 377-404: decode_token, whose 401 is passed on,
\* then the subject is looked up in admins and, only if it is not there, in
\* users.  get_current_admin and get_current_project_user (lines 416-432)
\* refuse the other "type" with 403.
GetCurrent(p, dep, tok, ok) ==
    /\ Arrives(p)
    /\ LET me == [Idle EXCEPT !.op = dep, !.tok = tok,
                              !.failed = JwtDecodes(tok, now) /\ ~ok]
           answer == AwaitDecodeToken(tok, now, blacklist, ok)
           type == IF tok.sub \in AdminIds THEN "admin"
                   ELSE IF tok.sub \in UserIds THEN "user" ELSE "none"
           wanted == IF dep = "get_current_admin" THEN {"admin"}
                     ELSE IF dep = "get_current_project_user" THEN {"user"}
                     ELSE {"admin", "user"}
       IN procs' = [procs EXCEPT ![p] =
            IF answer # "ok" THEN Done(me, answer)
            ELSE IF type = "none" THEN Done(me, "notfound")
            ELSE IF type \notin wanted THEN Done(me, "forbidden")
            ELSE [Done(me, "ok") EXCEPT !.ident = tok.sub, !.utype = type]]
    /\ UNCHANGED <<now, issued, refresh, blacklist, redeemed, revoked>>

\* The tokens of earlier sessions, as issued[].
HeldIssued ==
    [j \in 1..(Cardinality(InitJtis) + Cardinality(Subjects)) |->
        IF j \in InitJtis
        THEN [sub |-> j, type |-> "refresh", jti |-> j, exp |-> RefreshTtl]
        ELSE [sub |-> j - Cardinality(InitJtis), type |-> "access",
              jti |-> j, exp |-> AccessTtl]]

\* As Init, with the held access tokens issued as well.  All four tokens were
\* minted by the login of project users (user_auth.py, lines 116-117), for
\* the users 1 and 2; user 1 has the id of the administrator 1.
InitBearer ==
    /\ now = 0
    /\ issued = HeldIssued
    /\ \E lag \in {0, 1} :
         refresh = [j \in Jtis |-> IF j \in InitJtis
                                     THEN [sub |-> j, expireAt |-> RefreshTtl + lag]
                                     ELSE NoEntry]
    /\ blacklist = [j \in Jtis |-> NoKey]
    /\ procs = [p \in Procs |-> Idle]
    /\ redeemed = {}
    /\ revoked = {}

NextBearer ==
    \/ Tick
    \/ \E p \in Procs, dep \in Dependencies, tok \in Presentable, ok \in BOOLEAN :
          GetCurrent(p, dep, tok, ok)
    \/ \E p \in Procs, tok \in Presentable, ok \in BOOLEAN : RevokeSetex(p, tok, ok)
    \/ \E p \in Procs, ok \in BOOLEAN : RevokeDelete(p, ok)

SpecBearer == InitBearer /\ [][NextBearer]_vars

\* ------------------------------------------------------------------ claims

Redeemers == {p \in Procs : procs[p].op \in Handlers}
Minted(p) == procs[p].minted # 0

\* C1: of two redemption attempts of one refresh token that run concurrently
\* (neither started after the other had succeeded), exactly one mints a new
\* pair: when one has minted, the other mints nothing.
C1_ConcurrentRedemptionMintsOnce ==
    \A p \in Redeemers, q \in Redeemers :
        (p # q /\ procs[p].tok = procs[q].tok /\ Minted(p) /\ ~procs[q].afterRedeem)
            => ~Minted(q)

\* C2: a redemption attempt that starts after its refresh token has been
\* redeemed successfully mints nothing and ends in a failure, before and
\* after the token's expiry.
C2_OneTimeUse ==
    \A p \in Redeemers :
        procs[p].afterRedeem =>
            /\ ~Minted(p)
            /\ procs[p].pc = "done" => procs[p].res \in {"invalid", "revoked", "inactive", "error"}

\* C2 witness: a later attempt with a redeemed, still unexpired token has failed.
C2_Witness ==
    \E p \in Redeemers :
        /\ procs[p].afterRedeem
        /\ procs[p].pc = "done"
        /\ procs[p].res \in {"revoked", "inactive"}
        /\ JwtDecodes(procs[p].tok, now)

\* C3: when create_refresh_token returns a token for subject S, Redis holds
\* refresh_token:<jti> with value S and the token's lifetime as TTL.
C3_IssuedRefreshIsRegistered ==
    [][\A j \in (Len(issued) + 1)..Len(issued') :
          issued'[j].type = "refresh" =>
              refresh'[j] = [sub |-> issued'[j].sub, expireAt |-> now + RefreshTtl]]_vars

\* C4: a login during which Redis does not answer the write of the
\* active-refresh entry returns no refresh token.
C4_NoTokenWhenRegistrationFails ==
    [][\A p \in Procs, s \in Subjects : Login(p, s, FALSE) => procs'[p].minted = 0]_vars

\* C5: decode_token of a refresh token, right after create_refresh_token has
\* returned it for subject S, succeeds with sub = S and type = refresh.
C5_IssuedRefreshValidates ==
    [][\A p \in Procs :
          (procs[p].minted = 0 /\ procs'[p].minted # 0) =>
              LET t == issued'[procs'[p].minted]
                  s == IF procs'[p].op = "admin_auth" THEN procs'[p].sub
                       ELSE procs'[p].tok.sub
              IN  /\ DecodeToken(t, now', blacklist') = "ok"
                  /\ t.sub = s
                  /\ t.type = "refresh"]_vars

\* C5 witness: a request has been handed a refresh token, and it validates.
C5_Witness ==
    \E p \in Procs :
        /\ Minted(p)
        /\ DecodeToken(issued[procs[p].minted], now, blacklist) = "ok"

\* C6: a redemption attempt that starts after revoke_token has returned True
\* for its (refresh) token mints nothing and fails with Revoked; the attempt
\* may instead find the token expired, or Redis may not answer.
C6_RevokedRefreshFailsRevoked ==
    \A p \in Redeemers :
        (procs[p].afterRevoke /\ procs[p].tok.type = "refresh" /\ procs[p].pc = "done")
            => /\ ~Minted(p)
               /\ procs[p].res \in {"revoked", "invalid", "error"}

\* C7: a store call of revoke_token on a token for which revoke_token has
\* returned True before, and whose blacklist entry is there, changes nothing:
\* the token has no active entry, both namespaces stay as they are, and the
\* call raises nothing when Redis answers.
C7_RevokeIdempotent ==
    [][\A p \in Procs :
          (/\ procs'[p] # procs[p]
           /\ procs'[p].op = "revoke_token"
           /\ procs'[p].afterRevoke
           /\ IsBlacklisted(blacklist, procs'[p].tok.jti))
          => /\ ~IsActive(refresh, procs'[p].tok.jti)
             /\ refresh' = refresh
             /\ blacklist' = blacklist
             /\ (RevokeSetex(p, procs'[p].tok, TRUE) \/ RevokeDelete(p, TRUE))
                    => procs'[p].res \in {"none", "true"}]_vars

\* C7 witness: revoke_token has returned True a second time for a refresh
\* token that is still blacklisted.
C7_Witness ==
    \E p \in Procs :
        /\ procs[p].op = "revoke_token"
        /\ procs[p].afterRevoke
        /\ procs[p].tok.type = "refresh"
        /\ procs[p].res = "true"
        /\ IsBlacklisted(blacklist, procs[p].tok.jti)

\* C8: when revoke_all_user_tokens(S) returns, every refresh token issued to
\* S before the call, and not yet in the last second of its validity, is
\* blacklisted and has no active entry.
C8_RevokeAllRevokesIssued ==
    [][\A p \in Procs :
          (/\ procs'[p].op = "revoke_all_user_tokens"
           /\ procs[p].pc # "done"
           /\ procs'[p].pc = "done"
           /\ procs'[p].res = "true")
          => \A j \in 1..procs'[p].snap :
                (issued[j].type = "refresh" /\ issued[j].sub = procs'[p].sub
                    /\ issued[j].exp > now)
                => (IsBlacklisted(blacklist', j) /\ ~IsActive(refresh', j))]_vars

\* C9: no store call of revoke_all_user_tokens(S) changes the active entry
\* or the blacklist entry of a refresh token of another subject.
C9_RevokeAllSparesOthers ==
    [][\A p \in Procs :
          (procs'[p] # procs[p] /\ procs'[p].op = "revoke_all_user_tokens")
          => \A j \in 1..Len(issued) :
                issued[j].sub # procs'[p].sub
                => (refresh'[j] = refresh[j] /\ blacklist'[j] = blacklist[j])]_vars

\* C9 witness: revoke_all_user_tokens(S) has returned, a token of S is
\* blacklisted, and a token of another subject is active and not blacklisted.
C9_Witness ==
    \E p \in Procs :
        /\ procs[p].op = "revoke_all_user_tokens"
        /\ procs[p].res = "true"
        /\ \E j \in 1..Len(issued) :
              issued[j].sub = procs[p].sub /\ IsBlacklisted(blacklist, j)
        /\ \E k \in 1..Len(issued) :
              /\ issued[k].sub # procs[p].sub
              /\ IsActive(refresh, k)
              /\ ~IsBlacklisted(blacklist, k)

\* C10: no token id has an active-refresh entry and a blacklist entry at the
\* same time, in any state, also between two store calls of a handler.
C10_ActiveXorBlacklisted ==
    \A j \in Jtis : ~(IsActive(refresh, j) /\ IsBlacklisted(blacklist, j))

\* The step in which auth_middleware request p is handed a new pair.
AmMints(p) ==
    /\ procs[p].op = "auth_middleware"
    /\ procs[p].minted = 0
    /\ procs'[p].minted # 0

\* C11: when auth_middleware gets an access token that no longer decodes and
\* an active refresh token of a known subject S, it attaches the identity S
\* and surfaces a new pair for S with another refresh id; the redeemed id is
\* then blacklisted and not active, and the new refresh id is active.
C11_SilentRefresh ==
    [][\A p \in Procs :
          (/\ AmMints(p)
           /\ procs[p].why = "invalid"
           /\ procs[p].tok.sub \in AdminIds \cap UserIds)
          => LET old == procs[p].tok
                 new == issued'[procs'[p].minted]
             IN  /\ procs'[p].ident = old.sub
                 /\ new.sub = old.sub /\ new.type = "refresh" /\ new.jti # old.jti
                 /\ issued'[new.jti - 1].sub = old.sub
                 /\ issued'[new.jti - 1].type = "access"
                 /\ IsBlacklisted(blacklist', old.jti)
                 /\ ~IsActive(refresh', old.jti)
                 /\ IsActive(refresh', new.jti)]_vars

\* C12: an access token issued with expires_delta = d seconds, d >= 0, has
\* exp = time of issue + d, and jwt.decode rejects it at every later second:
\* a token issued with d = 0 is not accepted one second later.
C12_AccessTokenLifetime ==
    [][\A p \in Procs, s \in Subjects, d \in 0..MaxDelta :
          IssueAccessToken(p, s, d)
          => LET tok == issued'[Len(issued')]
             IN  /\ tok.exp = now + d
                 /\ \A t \in (now + d + 1)..(MaxTime + 1) : ~JwtDecodes(tok, t)]_vars

\* C13: decode_token of a token whose exp has passed fails with the decode
\* error (401 Could not validate credentials), never with Revoked, whether
\* its id is blacklisted or not, and whether Redis answers or not: the
\* blacklist is not looked up.  Checked where a handler validates a token.
C13_ExpiredBeforeRevoked ==
    [][\A p \in Procs :
          (procs[p].pc \in {"idle", "refresh"} /\ procs'[p] # procs[p])
          => /\ (/\ JwtExpired(procs'[p].tok, now)
                 /\ \E h \in Handlers, route \in Routes, ok \in BOOLEAN :
                       RedeemDecode(p, h, procs'[p].tok, route, ok))
                => procs'[p].pc = "done" /\ procs'[p].res = "invalid"
             /\ procs'[p].why # "invalid"
                => \A acc \in Presentable :
                      JwtExpired(acc, now)
                      => \A ref \in Presentable \cup {NoToken}, route \in Routes,
                            ok \in BOOLEAN : ~AmAccess(p, acc, ref, route, ok)]_vars

\* C13 witness: a redemption presented an expired refresh token whose id is
\* blacklisted, and was answered with the decode error.
C13_Witness ==
    \E p \in Redeemers :
        /\ procs[p].res = "invalid"
        /\ procs[p].tok.type = "refresh"
        /\ JwtExpired(procs[p].tok, now)
        /\ IsBlacklisted(blacklist, procs[p].tok.jti)

\* C14: no two tokens minted by create_access_token or create_refresh_token
\* carry the same jti, and neither token of the pair that a redemption mints
\* carries the jti of the redeemed token.
C14_JtiNeverReused ==
    /\ \A i \in 1..Len(issued), j \in 1..Len(issued) :
          i # j => issued[i].jti # issued[j].jti
    /\ \A p \in Redeemers :
          Minted(p) => /\ issued[procs[p].minted].jti # procs[p].tok.jti
                       /\ issued[procs[p].minted - 1].jti # procs[p].tok.jti

\* C14 witness: a redemption has minted a pair, and a later request has
\* minted more tokens.
C14_Witness ==
    \E p \in Redeemers :
        /\ Minted(p)
        /\ Len(issued) > procs[p].minted

\* C15: when a Redis call of auth_middleware is not answered (connection
\* error, timeout), the resolution is over: no identity is attached to the
\* request and no new tokens are put on it.
C15_FailClosed ==
    \A p \in Procs :
        (procs[p].op = "auth_middleware" /\ procs[p].failed)
            => /\ procs[p].pc = "done"
               /\ procs[p].ident = 0
               /\ procs[p].minted = 0

\* C15 witness: a redemption of auth_middleware was cut short by a Redis
\* error after its token had been blacklisted; the request has no identity
\* and no new tokens.
C15_Witness ==
    \E p \in Procs :
        /\ procs[p].op = "auth_middleware"
        /\ procs[p].failed
        /\ procs[p].tok.type = "refresh"
        /\ IsBlacklisted(blacklist, procs[p].tok.jti)
        /\ IsActive(refresh, procs[p].tok.jti)
        /\ procs[p].ident = 0 /\ procs[p].minted = 0

\* C16: a request without an access token to a route that demands a login
\* is failed with 401 and is not passed on to its handler; to any other
\* route it is passed on with no identity attached.
C16_NoCredential ==
    [][\A p \in Procs :
          (procs[p].pc = "idle" /\ procs'[p].pc = "done")
          => \A ref \in Presentable \cup {NoToken}, route \in Routes, ok \in BOOLEAN :
                AmAccess(p, NoToken, ref, route, ok)
                => /\ procs'[p].ident = 0
                   /\ IF RequiresAuth(route)
                      THEN procs'[p].raised /\ ~procs'[p].served
                      ELSE ~procs'[p].raised /\ procs'[p].served]_vars

\* C17: a blacklist entry written by revoke_token or revoke_all_user_tokens
\* stays as long as jwt.decode accepts the token: decode_token of a token
\* that was blacklisted never succeeds again.
C17_BlacklistOutlivesToken ==
    [][\A j \in 1..Len(issued) :
          (IsBlacklisted(blacklist, j) /\ JwtDecodes(issued[j], now'))
          => /\ IsBlacklisted(blacklist', j)
             /\ DecodeToken(issued[j], now', blacklist') # "ok"]_vars

\* C18: a redemption goes on to revoke and mint only when its token has
\* passed decode_token, is of type refresh, and has its refresh_token:<jti>
\* key in Redis at the time of the EXISTS; a valid, unrevoked refresh token
\* without that key is refused with 401: no tokens, no identity.
C18_RedemptionNeedsActiveEntry ==
    [][\A p \in Procs :
          (procs'[p] # procs[p] /\ procs'[p].op \in Handlers)
          => LET tok == procs'[p].tok
                 hasKey == refresh[tok.jti] # NoEntry
             IN  /\ procs'[p].pc = "exists" => DecodeToken(tok, now, blacklist) = "ok"
                 /\ procs'[p].pc = "revoke" => tok.type = "refresh" /\ hasKey
                 /\ procs'[p].minted # 0 => procs[p].pc \in {"revoke", "delete"}
                 /\ procs[p].pc = "delete" => procs[p].tok.type = "refresh"
                 /\ (procs[p].pc = "exists" /\ tok.type = "refresh" /\ ~hasKey)
                        => /\ procs'[p].pc = "done"
                           /\ procs'[p].res \in {"inactive", "error"}
                           /\ procs'[p].minted = 0
                           /\ procs'[p].ident = 0]_vars

\* C18 witness: a refresh token that decodes and is not blacklisted, but has
\* no active entry, was refused.
C18_Witness ==
    \E p \in Redeemers :
        /\ procs[p].res = "inactive"
        /\ procs[p].tok.type = "refresh"
        /\ DecodeToken(procs[p].tok, now, blacklist) = "ok"
        /\ procs[p].minted = 0

\* C19: the access path of auth_middleware attaches an identity only for a
\* token of type access: a step of the access path that ends as a valid
\* access, or with an identity attached, is never the step of a request
\* whose access credential is a refresh token (or anything but an access
\* token).
C19_AccessPathNeedsAccessType ==
    [][\A p \in Procs :
          (/\ procs[p].pc = "idle"
           /\ procs'[p].op = "auth_middleware"
           /\ (procs'[p].res = "valid_access" \/ procs'[p].ident # 0))
          => \A acc \in Presentable, ref \in Presentable \cup {NoToken},
                route \in Routes, ok \in BOOLEAN :
                AmAccess(p, acc, ref, route, ok) => acc.type = "access"]_vars

\* C19 witness: a request whose access credential decoded, was not
\* blacklisted and was refused for its type has ended without identity.
C19_Witness ==
    \E p \in Procs :
        /\ procs[p].op = "auth_middleware"
        /\ procs[p].why = "wrongtype"
        /\ procs[p].pc = "done"
        /\ procs[p].ident = 0

\* C20: when the subject of a valid access token has no row in the table of
\* the route, the request stays without identity, and the failed lookup
\* leads to no redemption of the refresh cookie: no new tokens are minted.
C20_LookupFailureEndsResolution ==
    \A p \in Procs :
        (procs[p].op = "auth_middleware" /\ procs[p].why = "notfound")
            => procs[p].minted = 0 /\ procs[p].ident = 0

\* C21: for every request path, the identity that a redemption in
\* auth_middleware attaches is looked up in the table that the access path
\* uses for the path: the admins for an admin route, else the users.
C21_SameIdentityClass ==
    [][\A p \in Procs :
          AmMints(p)
          => \A route \in Routes, ok \in BOOLEAN, wr \in BOOLEAN :
                (RedeemRevoke(p, route, ok, wr) \/ RedeemDelete(p, route, ok, wr))
                => (procs'[p].ident # 0)
                      = IdentityFound(procs[p].tok.sub, IsAdminRouteAccess(route))]_vars

\* The cookies of the identity class of the route alone: the admins_* cookies
\* on an admin route, the users_* cookies on any other, and the header.
OwnClass(jar, route) ==
    IF IsAdminRouteAccess(route)
    THEN [jar EXCEPT !.usersAccess = NoToken, !.usersRefresh = NoToken]
    ELSE [jar EXCEPT !.adminsAccess = NoToken, !.adminsRefresh = NoToken]

\* C22: auth_middleware authenticates a request from the cookies of the
\* identity class of its route only: it handles the request as it would
\* without the cookies of the other class, whatever cookies are present.
C22_CredentialsPerClass ==
    [][\A p \in Procs, route \in Routes, ok \in BOOLEAN :
          AmRequest(p, route, ok)
          => LET own == OwnClass(procs[p].jar, route)
             IN AmAccess(p, AccessCredential(own), RefreshCredential(own), route, ok)]_vars

\* C23: a request without an access token, in a cookie or in the header,
\* ends in auth_middleware's first step as "no credential": the refresh
\* cookie is not read, no identity is attached, nothing is minted, Redis is
\* left as it was, and 401 is raised if and only if the route demands a login.
C23_NoAccessTokenNoCredential ==
    [][\A p \in Procs, route \in Routes, ok \in BOOLEAN :
          /\ AmRequest(p, route, ok)
          /\ procs[p].jar.adminsAccess = NoToken
          /\ procs[p].jar.usersAccess = NoToken
          /\ procs[p].jar.bearer = NoToken
          => /\ procs'[p].pc = "done" /\ procs'[p].res = "nocred"
             /\ procs'[p].ident = 0 /\ procs'[p].minted = 0
             /\ procs'[p].raised = RequiresAuth(route)
             /\ UNCHANGED <<issued, refresh, blacklist, redeemed, revoked>>]_vars

\* A request without access token, with the active refresh token 1 as cookie,
\* has ended as "no credential".
C23_Witness ==
    \E p \in Procs :
       /\ procs[p].op = "auth_middleware" /\ procs[p].res = "nocred"
       /\ procs[p].jar.usersRefresh.jti = 1
       /\ IsActive(refresh, 1) /\ ~IsBlacklisted(blacklist, 1)

\* C24: with an access-token cookie present, auth_middleware handles the
\* request with the token of a cookie and the header is ignored; without
\* one it handles the request with the token of the header.
C24_CookieBeforeHeader ==
    [][\A p \in Procs, route \in Routes, ok \in BOOLEAN :
          AmRequest(p, route, ok)
          => LET jar == procs[p].jar
                 cookies == {jar.adminsAccess, jar.usersAccess} \ {NoToken}
                 ref == RefreshCredential(jar)
             IN IF cookies # {}
                THEN \E c \in cookies : AmAccess(p, c, ref, route, ok)
                ELSE AmAccess(p, jar.bearer, ref, route, ok)]_vars

\* The user's access cookie beat the admin's token in the header: on an admin
\* route the request was refused for want of an admins row.
C24_Witness ==
    \E p \in Procs :
       /\ procs[p].op = "auth_middleware" /\ procs[p].res = "norefresh"
       /\ procs[p].why = "notfound"
       /\ procs[p].jar.adminsAccess = NoToken
       /\ procs[p].jar.usersAccess.sub = 2 /\ procs[p].jar.bearer.sub = 1

\* C25: a redemption retires its refresh token before it mints: whenever a
\* redemption has minted a pair, the token it redeemed is not at once in the
\* active set and off the blacklist.
C25_RetiredBeforeMinted ==
    \A p \in Redeemers :
        Minted(p) => ~(/\ IsActive(refresh, procs[p].tok.jti)
                       /\ ~IsBlacklisted(blacklist, procs[p].tok.jti))

\* A redemption has minted a pair; its token, still unexpired, is blacklisted
\* and has no active entry.
C25_Witness ==
    \E p \in Redeemers :
        /\ Minted(p)
        /\ JwtDecodes(procs[p].tok, now)
        /\ IsBlacklisted(blacklist, procs[p].tok.jti)
        /\ ~IsActive(refresh, procs[p].tok.jti)

\* C26: while revoke_token stands between its SETEX blacklist:<jti> and its
\* DEL refresh_token:<jti>, the refresh token cannot be redeemed: it is not
\* at once accepted by decode_token and in the active set.
C26_UnredeemableBetweenWrites ==
    \A p \in Procs :
        (procs[p].op = "revoke_token" /\ procs[p].pc = "delete")
        => ~(/\ DecodeToken(procs[p].tok, now, blacklist) = "ok"
             /\ IsActive(refresh, procs[p].tok.jti))

\* C27: revoke_token of a token that jwt.decode rejects, malformed or
\* signed with another key or expired, returns False without raising, also
\* when Redis is down, and leaves the blacklist and the active set as they are.
C27_RevokeUndecodable ==
    [][\A p \in Procs, ok \in BOOLEAN :
          LET tok == procs'[p].tok IN
          (RevokeSetex(p, tok, ok) /\ (tok.type = "malformed" \/ tok.exp < now))
          => /\ procs'[p].pc = "done" /\ procs'[p].res = "false"
             /\ UNCHANGED <<refresh, blacklist, revoked>>]_vars

\* revoke_token has returned False for the expired refresh token 1.
C27_Witness ==
    \E p \in Procs :
        /\ procs[p].op = "revoke_token" /\ procs[p].res = "false"
        /\ procs[p].tok.jti = 1 /\ procs[p].tok.exp < now

\* C28: revoke_token touches the keys of its token only.  No entry of another
\* id is added, removed or changed; for an access token the active set stays
\* as it is and True means that the id is blacklisted; for a refresh token
\* the id is blacklisted when the SETEX is done and has no active entry when
\* True is returned.
C28_RevokeFrame ==
    [][\A p \in Procs :
          (procs'[p] # procs[p] /\ procs'[p].op = "revoke_token")
          => LET tok == procs'[p].tok IN
             /\ \A k \in Jtis \ {tok.jti} :
                    refresh'[k] = refresh[k] /\ blacklist'[k] = blacklist[k]
             /\ tok.type = "access" =>
                    /\ refresh' = refresh
                    /\ procs'[p].res = "true" => IsBlacklisted(blacklist', tok.jti)
             /\ tok.type = "refresh" =>
                    /\ procs'[p].pc = "delete" => IsBlacklisted(blacklist', tok.jti)
                    /\ procs'[p].res = "true" => ~IsActive(refresh', tok.jti)]_vars

\* revoke_token has returned True for an access token, which is blacklisted,
\* while the refresh tokens 1 and 2 are active and off the blacklist.
C28_Witness ==
    \E p \in Procs :
        /\ procs[p].op = "revoke_token" /\ procs[p].res = "true"
        /\ procs[p].tok.type = "access"
        /\ IsBlacklisted(blacklist, procs[p].tok.jti)
        /\ \A j \in InitJtis : IsActive(refresh, j) /\ ~IsBlacklisted(blacklist, j)

\* C29: the SETEX blacklist:<jti> of revoke_token, called as such or within
\* a redemption, has the TTL exp - now when that is more than a second and
\* one second otherwise, never less than a second.
C29_RevokeTtlFloor ==
    [][\A p \in Procs :
          LET tok == procs'[p].tok
              wrote == \/ /\ procs[p].pc = "idle" /\ procs'[p].op = "revoke_token"
                          /\ (procs'[p].pc = "delete" \/ procs'[p].res = "true")
                       \/ procs[p].pc = "revoke" /\ procs'[p].pc = "delete"
              ttl == blacklist'[tok.jti] - now
          IN wrote => /\ ttl >= 1
                      /\ ttl = (IF tok.exp - now > 1 THEN tok.exp - now ELSE 1)]_vars

\* revoke_token has returned True for a token that it was given in the last
\* second of the token's validity: the entry is there for one second.
C29_Witness ==
    \E p \in Procs :
        /\ procs[p].op = "revoke_token" /\ procs[p].res = "true"
        /\ now = procs[p].tok.exp
        /\ blacklist[procs[p].tok.jti] = now + 1

\* C30: the TTL of a blacklist entry that revoke_all_user_tokens writes is
\* at least the time for which the refresh token of that id is still valid,
\* whatever lifetime the token was issued with.
C30_RevokeAllTtlCoversToken ==
    [][\A p \in Procs :
          (/\ procs[p].op = "revoke_all_user_tokens"
           /\ procs[p].pc = "setex" /\ procs'[p].pc = "delete")
          => blacklist'[procs[p].key] - now >= issued[procs[p].key].exp - now]_vars

\* C31: revoke_all_user_tokens ends whenever Redis answers its calls, in
\* whatever order the keys of a page are dealt with, with keys returned
\* again and with keys that are gone when they are read.  It returns True,
\* unless a call raised, and does so with the step that deals with the last
\* key of the page that came with the cursor 0, not earlier and not later.
C31_RevokeAllTerminates ==
    /\ \A p \in Procs :
          (procs[p].op = "revoke_all_user_tokens") ~> (procs[p].pc = "done")
    /\ [][\A p \in Procs :
            (procs'[p] # procs[p] /\ procs'[p].op = "revoke_all_user_tokens")
            => LET me == procs[p]
                   last == /\ me.pc \in {"get", "delete"}
                           /\ me.cursor = 0 /\ Cardinality(me.todo) = 1
               IN /\ (procs'[p].pc = "done" /\ procs'[p].res # "error")
                        => /\ procs'[p].res = "true"
                           /\ me.pc \in {"get", "delete"} => last
                  /\ (last /\ procs'[p].pc # "setex") => procs'[p].pc = "done"]_vars

\* revoke_all_user_tokens has returned True after a SCAN had returned a key again.
C31_Witness ==
    \E p \in Procs :
        /\ procs[p].op = "revoke_all_user_tokens"
        /\ procs[p].res = "true" /\ procs[p].again

\* C32: every resolution of auth_middleware that has begun comes to an end,
\* also when Redis leaves a call unanswered.
C32_ResolutionCompletes ==
    \A p \in Procs :
        (procs[p].op = "auth_middleware") ~> (procs[p].pc = "done")

\* C33: a token minted for a project user is never resolved to an
\* administrator (every token of SpecBearer is a project user's).
C33_UserTokenNeverAdmin ==
    \A p \in Procs :
        (procs[p].op \in Dependencies /\ procs[p].res = "ok")
        => procs[p].utype # "admin"

\* C34: the bearer dependencies resolve a token only when its type is
\* "access".
C34_BearerNeedsAccessType ==
    \A p \in Procs :
        (procs[p].op \in Dependencies /\ procs[p].res = "ok")
        => procs[p].tok.type = "access"

C36_NewTokensOnlyWithIdentity ==
    \A p \in Procs :
        (procs[p].op = "auth_middleware" /\ Minted(p))
        => procs[p].ident # 0 /\ procs[p].res = "ok"

\* C37: a resolution of auth_middleware that ends without an identity has
\* not changed Redis; in particular the step with which it ends consumes no
\* refresh token and mints nothing.
C37_NoIdentityNoChange ==
    [][\A p \in Procs :
          (/\ procs[p].op = "auth_middleware" /\ procs[p].pc # "done"
           /\ procs'[p].pc = "done" /\ procs'[p].ident = 0)
          => /\ refresh' = refresh /\ blacklist' = blacklist
             /\ issued' = issued /\ ~Minted(p)']_vars

\* C38: a step of revoke_all_user_tokens writes no blacklist entry but that
\* of the key it has found in the active set and read, which is the id of a
\* refresh token; every access token is validated after the step as before.
C38_RevokeAllSparesAccessTokens ==
    [][\A p \in Procs :
          (procs'[p] # procs[p] /\ procs'[p].op = "revoke_all_user_tokens")
          => /\ \A j \in Jtis :
                   blacklist'[j] # blacklist[j]
                   => /\ j = procs[p].key /\ j \in procs[p].todo
                      /\ j <= Len(issued) /\ issued[j].type = "refresh"
             /\ \A j \in 1..Len(issued) :
                   issued[j].type = "access"
                   => DecodeToken(issued[j], now, blacklist')
                         = DecodeToken(issued[j], now, blacklist)]_vars

\* revoke_all_user_tokens(S) has returned True and has blacklisted a refresh
\* token of S, and an access token issued to S before the call is accepted.
C38_Witness ==
    \E p \in Procs :
        /\ procs[p].op = "revoke_all_user_tokens" /\ procs[p].res = "true"
        /\ \E j \in InitJtis :
              issued[j].sub = procs[p].sub /\ blacklist[j] = now + RefreshTtl
        /\ \E j \in 1..procs[p].snap :
              /\ issued[j].type = "access" /\ issued[j].sub = procs[p].sub
              /\ DecodeToken(issued[j], now, blacklist) = "ok"

====
